---------------------------- MODULE Spec2Model ----------------------------
(***************************************************************************)
(* kitara: MIDI guitar -> keyboard emulation (src/src/main.rs).            *)
(*                                                                         *)
(* Rust strings are modelled as sequences of one-character strings, so     *)
(* that parsing (str::parse::<u8>), first-character extraction             *)
(* (chars().next()) and lower-casing are computed character by character.  *)
(* Rust vectors are 0-based; At(v, i) reads element i of a TLA+ sequence.  *)
(***************************************************************************)
EXTENDS Integers, Sequences, FiniteSets, TLC

(***************************************************************************)
(* Bounds of the model.                                                    *)
(***************************************************************************)
\* messages delivered to the callback in one run
MaxMsgs == 2
\* data rows of the configuration table range over NUM_STRINGS-1 .. MaxRows
MaxRows == 7
\* columns of the configuration table range over NUM_FRETS .. MaxCols
MaxCols == 25

(***************************************************************************)
(* Program constants, main.rs lines 15-40.                                 *)
(***************************************************************************)
NUM_FRETS == 23
NUM_STRINGS == 6
\* the tuning table written low string first
TUNING_NOTES_LowToHigh == <<40, 45, 50, 55, 59, 64>>

TUNING_NOTES_HIGH_TO_LOW == <<64, 59, 55, 50, 45, 40>>

SHIFT == <<"S", "H">>
CTRL == <<"C", "T">>
CMD == <<"C", "M">>
ALT == <<"A", "L">>
SPACE == <<"S", "P">>
TAB == <<"T", "A">>
BACKSPACE == <<"B", "A">>
ENTER == <<"E", "N">>
ESCAPE == <<"E", "S">>
ARROW_LEFT == <<"L", "E">>
ARROW_UP == <<"U", "P">>
ARROW_RIGHT == <<"R", "I">>
ARROW_DOWN == <<"D", "O">>

STATUS_PRESS == 9
STATUS_RELEASE == 8

(***************************************************************************)
(* Helpers for Rust values.                                                *)
(***************************************************************************)
\* v[i] on a Vec / slice / StringRecord, 0-based; the caller checks bounds
At(v, i) == v[i + 1]

\* Result / Option values
Ok(v) == [tag |-> "Ok", val |-> v]
Err(e) == [tag |-> "Err", val |-> e]
Panic(m) == [tag |-> "Panic", val |-> m]

\* a & b on u8, bit by bit
RECURSIVE BitAnd(_, _)
BitAnd(a, b) ==
    IF a = 0 \/ b = 0 THEN 0
    ELSE 2 * BitAnd(a \div 2, b \div 2) + (IF a % 2 = 1 /\ b % 2 = 1 THEN 1 ELSE 0)

\* a >> n on u8
RECURSIVE Shr(_, _)
Shr(a, n) == IF n = 0 THEN a ELSE Shr(a \div 2, n - 1)

Digits == <<"0", "1", "2", "3", "4", "5", "6", "7", "8", "9">>

IsDigit(c) == \E d \in 1..10 : Digits[d] = c

DigitVal(c) == (CHOOSE d \in 1..10 : Digits[d] = c) - 1

\* the digit loop of <u8 as FromStr>::from_str: checked multiply and add
RECURSIVE ParseDigits(_, _)
ParseDigits(s, acc) ==
    IF s = <<>> THEN Ok(acc)
    ELSE IF ~IsDigit(Head(s)) THEN Err("InvalidDigit")
    ELSE LET next == acc * 10 + DigitVal(Head(s))
         IN IF next > 255 THEN Err("PosOverflow") ELSE ParseDigits(Tail(s), next)

\* str::parse::<u8>(): empty is an error, one leading '+' is accepted,
\* no whitespace is trimmed, the value must fit 8 bits
ParseU8(s) ==
    IF s = <<>> THEN Err("Empty")
    ELSE LET d == IF Head(s) = "+" THEN Tail(s) ELSE s
         IN IF d = <<>> THEN Err("InvalidDigit") ELSE ParseDigits(d, 0)

\* u8 Display: decimal digits without padding
RECURSIVE U8ToStr(_)
U8ToStr(n) ==
    IF n < 10 THEN <<Digits[n + 1]>>
    ELSE Append(U8ToStr(n \div 10), Digits[(n % 10) + 1])


(***************************************************************************)
(* usize arithmetic.  A 64-bit usize does not fit TLC's 32-bit integers,    *)
(* so a usize is kept as [wrap, mag]: the value mag when wrap is FALSE and *)
(* 2^64 - mag (mag > 0) when wrap is TRUE.                                 *)
(***************************************************************************)
\* (x as usize) for an i32 x: sign extension, a negative x becomes 2^64 + x
AsUsize(x) ==
    IF x < 0 THEN [wrap |-> TRUE, mag |-> 0 - x] ELSE [wrap |-> FALSE, mag |-> x]

\* a + u on usize, for a small a: Err on overflow, as overflow checks report it
CheckedAdd(a, u) ==
    IF ~u.wrap THEN Ok([wrap |-> FALSE, mag |-> a + u.mag])
    ELSE IF a >= u.mag THEN Err("overflow")
    ELSE Ok([wrap |-> TRUE, mag |-> u.mag - a])

\* a + u on usize modulo 2^64, as a build without overflow checks computes it
WrappingAdd(a, u) ==
    IF ~u.wrap THEN [wrap |-> FALSE, mag |-> a + u.mag]
    ELSE IF a >= u.mag THEN [wrap |-> FALSE, mag |-> a - u.mag]
    ELSE [wrap |-> TRUE, mag |-> u.mag - a]

\* whether v[u] is in bounds for a usize index u
InBounds(v, u) == ~u.wrap /\ u.mag < Len(v)

(***************************************************************************)
(* Configuration: load_fretboard_mapping, main.rs lines 69-89.             *)
(* The file is held as its records (the first is the header line), each a  *)
(* sequence of fields.                                                     *)
(***************************************************************************)
\* csv::Reader with the default settings: the first record is the header and
\* is not yielded; a record whose field count differs from the first
\* record's is yielded as an error (the reader is not flexible)
CsvRecords(csv) ==
    IF csv = <<>> THEN <<>>
    ELSE [i \in 1..(Len(csv) - 1) |->
            IF Len(csv[i + 1]) = Len(csv[1]) THEN Ok(csv[i + 1])
            ELSE Err("UnequalLengths")]

\* the inner loop of lines 77-79 for string i, from fret j on
RECURSIVE FillString(_, _, _, _)
FillString(fretboard, rows, i, j) ==
    IF j = NUM_FRETS THEN Ok(fretboard)
    ELSE IF i >= Len(rows) THEN Panic("index out of bounds: rows")
    ELSE IF j + 1 >= Len(At(rows, i)) THEN Panic("index out of bounds: record")
    ELSE FillString(
            [fretboard EXCEPT ![i * NUM_FRETS + j + 1] = At(At(rows, i), j + 1)],
            rows, i, j + 1)

\* the outer loop of lines 76-80, from string i on
RECURSIVE FillFretboard(_, _, _)
FillFretboard(fretboard, rows, i) ==
    IF i = NUM_STRINGS THEN Ok(fretboard)
    ELSE LET filled == FillString(fretboard, rows, i, 0)
         IN IF filled.tag = "Panic" THEN filled
            ELSE FillFretboard(filled.val, rows, i + 1)

\* one element of the midi_channels iterator, line 85
ParseChannel(row) ==
    IF Len(row) = 0 THEN Panic("index out of bounds: record")
    ELSE LET r == ParseU8(At(row, 0))
         IN IF r.tag = "Ok" THEN Ok(r.val) ELSE Panic("unwrap on ParseIntError")

load_fretboard_mapping(csv) ==
    LET recs == CsvRecords(csv)
    IN IF \E i \in 1..Len(recs) : recs[i].tag = "Err"
       THEN Panic("unwrap on csv::Error")
       ELSE LET rows == [i \in 1..Len(recs) |-> recs[i].val]
                fb == FillFretboard([p \in 1..(NUM_FRETS * NUM_STRINGS) |-> <<>>],
                                    rows, 0)
                chans == [i \in 1..Len(rows) |-> ParseChannel(rows[i])]
            IN IF fb.tag = "Panic" THEN fb
               ELSE IF \E i \in 1..Len(chans) : chans[i].tag = "Panic"
               THEN Panic("unwrap on ParseIntError")
               ELSE Ok([midi_channels |-> [i \in 1..Len(chans) |-> chans[i].val],
                        keymap |-> fb.val])

(***************************************************************************)
(* Keyboard emulation calls, main.rs lines 232-246.                        *)
(***************************************************************************)
Key(name) == <<name>>
Layout(ch) == <<"Layout", ch>>

\* key_down whatever the status
press_release_key_AlwaysDown(status, key) == <<[op |-> "key_down", key |-> key]>>

press_release_key(status, key) ==
    IF status = STATUS_PRESS THEN <<[op |-> "key_down", key |-> key]>>
    ELSE <<[op |-> "key_up", key |-> key]>>

\* a click whatever the status
click_key_AnyStatus(status, key) == <<[op |-> "key_click", key |-> key]>>

click_key(status, key) ==
    IF status = STATUS_PRESS THEN <<[op |-> "key_click", key |-> key]>>
    ELSE <<>>

(***************************************************************************)
(* handle_robo_typing, main.rs lines 154-205.                              *)
(***************************************************************************)
\* the match with a catch-all arm that does not test for the empty token
Dispatch_EmptyClicks(status, key) ==
    CASE key = SHIFT -> press_release_key(status, Key("Shift"))
      [] key = CTRL -> press_release_key(status, Key("Control"))
      [] key = ALT -> press_release_key(status, Key("Alt"))
      [] key = CMD -> press_release_key(status, Key("Meta"))
      [] key = SPACE -> click_key(status, Key("Space"))
      [] key = TAB -> click_key(status, Key("Tab"))
      [] key = BACKSPACE -> click_key(status, Key("Backspace"))
      [] key = ENTER -> click_key(status, Key("Return"))
      [] key = ESCAPE -> click_key(status, Key("Escape"))
      [] key = ARROW_LEFT -> click_key(status, Key("LeftArrow"))
      [] key = ARROW_UP -> click_key(status, Key("UpArrow"))
      [] key = ARROW_RIGHT -> click_key(status, Key("RightArrow"))
      [] key = ARROW_DOWN -> click_key(status, Key("DownArrow"))
      [] OTHER -> click_key(status, Layout(IF key # <<>> THEN Head(key) ELSE " "))

\* the match on the token, lines 163-187
Dispatch(status, key) ==
    CASE key = SHIFT -> press_release_key(status, Key("Shift"))
      [] key = CTRL -> press_release_key(status, Key("Control"))
      [] key = ALT -> press_release_key(status, Key("Alt"))
      [] key = CMD -> press_release_key(status, Key("Meta"))
      [] key = SPACE -> click_key(status, Key("Space"))
      [] key = TAB -> click_key(status, Key("Tab"))
      [] key = BACKSPACE -> click_key(status, Key("Backspace"))
      [] key = ENTER -> click_key(status, Key("Return"))
      [] key = ESCAPE -> click_key(status, Key("Escape"))
      [] key = ARROW_LEFT -> click_key(status, Key("LeftArrow"))
      [] key = ARROW_UP -> click_key(status, Key("UpArrow"))
      [] key = ARROW_RIGHT -> click_key(status, Key("RightArrow"))
      [] key = ARROW_DOWN -> click_key(status, Key("DownArrow"))
      [] OTHER -> IF key # <<>> THEN click_key(status, Layout(Head(key))) ELSE <<>>

UNMAPPED_MARK == <<"<", "u", "n", "m", "a", "p", "p", "e", "d", ">">>

\* the println! of lines 189-204
EventLine(gtr_string, gtr_fret, channel, note, key, status) ==
    [kind |-> "event",
     string |-> gtr_string,
     fret |-> gtr_fret,
     channel |-> channel,
     note |-> note,
     key |-> IF Len(key) = 0 THEN UNMAPPED_MARK ELSE key,
     action |-> CASE status = STATUS_PRESS -> "press"
                  [] status = STATUS_RELEASE -> "release"
                  [] OTHER -> "???"]

\* the position computed with the number of strings as the row stride
KeymapPosition_WrongStride(gtr_string, gtr_fret, overflow_checks) ==
    IF overflow_checks THEN CheckedAdd(gtr_string * NUM_STRINGS, AsUsize(gtr_fret))
    ELSE Ok(WrappingAdd(gtr_string * NUM_STRINGS, AsUsize(gtr_fret)))

\* keymap_position of line 160; overflow_checks is the build's setting
KeymapPosition(gtr_string, gtr_fret, overflow_checks) ==
    IF overflow_checks THEN CheckedAdd(gtr_string * NUM_FRETS, AsUsize(gtr_fret))
    ELSE Ok(WrappingAdd(gtr_string * NUM_FRETS, AsUsize(gtr_fret)))

\* the lookup of lines 160-162: the token at (gtr_string, gtr_fret), or the
\* panic of an overflowing addition or of an index out of bounds
token_at(mapping, gtr_string, gtr_fret, overflow_checks) ==
    LET keymap_position == KeymapPosition(gtr_string, gtr_fret, overflow_checks)
    IN IF keymap_position.tag = "Err" THEN Panic("attempt to add with overflow")
       ELSE IF ~InBounds(mapping.keymap, keymap_position.val)
       THEN Panic("index out of bounds: keymap")
       ELSE Ok(At(mapping.keymap, keymap_position.val.mag))

\* line 157, with the index check of the tuning table
Resolve(gtr_string, note) ==
    IF gtr_string >= Len(TUNING_NOTES_HIGH_TO_LOW)
    THEN Panic("index out of bounds: tuning")
    ELSE Ok(note - At(TUNING_NOTES_HIGH_TO_LOW, gtr_string))

\* what one call does: [tag, calls, lines]
handle_robo_typing(mapping, channel, status, gtr_string, note, overflow_checks) ==
    LET gtr_fret == Resolve(gtr_string, note)
    IN IF gtr_fret.tag = "Panic"
       THEN [tag |-> "Panic", calls |-> <<>>, lines |-> <<>>]
       ELSE LET key == token_at(mapping, gtr_string, gtr_fret.val, overflow_checks)
            IN IF key.tag = "Panic"
               THEN [tag |-> "Panic", calls |-> <<>>, lines |-> <<>>]
               ELSE [tag |-> "Ok",
                     calls |-> Dispatch(status, key.val),
                     lines |-> <<EventLine(gtr_string, gtr_fret.val, channel, note,
                                           key.val, status)>>]

(***************************************************************************)
(* The message callback, main.rs lines 118-147.                            *)
(***************************************************************************)
\* position falling back to the first string when the channel is absent
Position_DefaultFirst(v, c) ==
    IF \E i \in 1..Len(v) : v[i] = c
    THEN [tag |-> "Some",
          val |-> (CHOOSE i \in 1..Len(v) :
                      v[i] = c /\ \A k \in 1..(i - 1) : v[k] # c) - 1]
    ELSE [tag |-> "Some", val |-> 0]

\* iter().position(|&x| x == c): the first 0-based index, or None
Position(v, c) ==
    IF \E i \in 1..Len(v) : v[i] = c
    THEN [tag |-> "Some",
          val |-> (CHOOSE i \in 1..Len(v) :
                      v[i] = c /\ \A k \in 1..(i - 1) : v[k] # c) - 1]
    ELSE [tag |-> "None", val |-> 0]

\* the channel left 0-based
DecodeChannel_ZeroBased(message) == BitAnd(At(message, 0), 15)

\* the locals of lines 123-130
DecodeChannel(message) == BitAnd(At(message, 0), 15) + 1
\* a note-on whose velocity byte is 0 read as a note-off
DecodeStatus_VelocityZeroOff(message) ==
    IF Len(message) > 2 /\ Shr(At(message, 0), 4) = STATUS_PRESS /\ At(message, 2) = 0
    THEN STATUS_RELEASE
    ELSE Shr(At(message, 0), 4)

DecodeStatus(message) == Shr(At(message, 0), 4)
DecodeNote(message) == At(message, 1)

NoEvent == [channel |-> 0, status |-> 0, note |-> 0, some |-> FALSE]

\* whether the length test of line 119 lets the message through
LongEnough(message) == Len(message) > 1

\* every status from 8 up taken for a note status
IsNoteStatus_AtLeast(status) == status >= STATUS_RELEASE

\* whether the status test of line 133 lets the message through
IsNoteStatus(status) == status = STATUS_PRESS \/ status = STATUS_RELEASE

\* what one invocation does: [tag, event, calls, lines]
OnMessage(mapping, message, overflow_checks) ==
    IF ~LongEnough(message)
    THEN [tag |-> "Ok", event |-> NoEvent, calls |-> <<>>, lines |-> <<>>]
    ELSE LET channel == DecodeChannel(message)
             status == DecodeStatus(message)
             note == DecodeNote(message)
             event == [channel |-> channel, status |-> status, note |-> note,
                       some |-> TRUE]
         IN IF ~IsNoteStatus(status)
            THEN [tag |-> "Ok", event |-> event, calls |-> <<>>, lines |-> <<>>]
            ELSE LET p == Position(mapping.midi_channels, channel)
                 IN IF p.tag = "None"
                    THEN [tag |-> "Ok", event |-> event, calls |-> <<>>,
                          lines |-> <<[kind |-> "failed_mapping",
                                       channel |-> channel]>>]
                    ELSE LET h == handle_robo_typing(mapping, channel, status,
                                                     p.val, note, overflow_checks)
                         IN [tag |-> h.tag, event |-> event, calls |-> h.calls,
                             lines |-> h.lines]

(***************************************************************************)
(* Port selection, main.rs lines 97-113.                                   *)
(***************************************************************************)
UpperCase == <<"A", "B", "C", "D", "E", "F", "G", "H", "I", "J", "K", "L", "M",
               "N", "O", "P", "Q", "R", "S", "T", "U", "V", "W", "X", "Y", "Z">>
LowerCase == <<"a", "b", "c", "d", "e", "f", "g", "h", "i", "j", "k", "l", "m",
               "n", "o", "p", "q", "r", "s", "t", "u", "v", "w", "x", "y", "z">>

\* char::to_lowercase on the ASCII letters
LowerChar(c) ==
    IF \E k \in 1..26 : UpperCase[k] = c
    THEN LowerCase[CHOOSE k \in 1..26 : UpperCase[k] = c]
    ELSE c

\* str::to_lowercase
ToLowercase(s) == [k \in 1..Len(s) |-> LowerChar(s[k])]

\* str::contains(&str): the pattern occurs as a contiguous substring
Contains(hay, pat) ==
    \E k \in 0..(Len(hay) - Len(pat)) :
        \A q \in 1..Len(pat) : hay[k + q] = pat[q]

\* the filter of lines 99-107 at 0-based port index i
PortMatches(names, i, device) ==
    Contains(ToLowercase(At(names, i)), ToLowercase(device))

\* the indices collected into matching_ports, in enumeration order
RECURSIVE MatchingPorts(_, _, _)
MatchingPorts(names, device, i) ==
    IF i >= Len(names) THEN <<>>
    ELSE (IF PortMatches(names, i, device) THEN <<i>> ELSE <<>>)
            \o MatchingPorts(names, device, i + 1)

\* in_port taken from the end of the list of matches
SelectPort_LastMatch(names, device) ==
    LET matching_ports == MatchingPorts(names, device, 0)
    IN IF Len(matching_ports) = 0 THEN Err("No input port found")
       ELSE Ok(At(matching_ports, Len(matching_ports) - 1))

\* in_port of lines 110-113: Err with no match, else the first match
SelectPort(names, device) ==
    LET matching_ports == MatchingPorts(names, device, 0)
    IN IF Len(matching_ports) = 0 THEN Err("No input port found")
       ELSE Ok(At(matching_ports, 0))

\* print_keyboard_mapping, lines 207-230: what is printed of the mapping
MappingTable(mapping) ==
    [kind |-> "mapping",
     channels |-> [i \in 1..NUM_STRINGS |-> mapping.midi_channels[i]],
     keymap |-> [p \in 1..(NUM_STRINGS * NUM_FRETS) |-> mapping.keymap[p]]]

(***************************************************************************)
(* Inputs.                                                                 *)
(***************************************************************************)
\* the tokens configuration cells are drawn from
TokenList == <<SPACE, SHIFT, <<"a">>, <<>>, CTRL, TAB, <<"a", "b">>, ALT,
               BACKSPACE, CMD, ENTER, <<"S">>, ESCAPE, ARROW_LEFT, ARROW_UP,
               ARROW_RIGHT, ARROW_DOWN>>

\* the token of data row i, fret column j (0-based) in table number seed
Cell(i, j, seed) == TokenList[((i * 5 + j + seed) % Len(TokenList)) + 1]

\* the text of the channel column of data row i (1-based), by scheme
ChannelCell(scheme, i) ==
    LET std == IF i <= NUM_STRINGS THEN i ELSE 17 + NUM_STRINGS - i
    IN CASE scheme = "std" -> U8ToStr(std)
         [] scheme = "rev" -> U8ToStr(IF i <= NUM_STRINGS THEN NUM_STRINGS + 1 - i ELSE i)
         [] scheme = "rot" -> U8ToStr(((i + 14) % 16) + 1)
         [] scheme = "dup" -> U8ToStr(IF i <= 2 THEN 1 ELSE i - 1)
         [] scheme = "plus" -> <<"+">> \o U8ToStr(std)
         [] scheme = "zero" -> IF i = 1 THEN <<"0">> ELSE U8ToStr(std)
         [] scheme = "seventeen" -> IF i = 2 THEN <<"1", "7">> ELSE U8ToStr(std)
         [] scheme = "alpha" -> IF i = 3 THEN <<"x">> ELSE U8ToStr(std)
         [] scheme = "big" -> IF i = 1 THEN <<"2", "5", "6">> ELSE U8ToStr(std)
         [] scheme = "empty" -> IF i = 2 THEN <<>> ELSE U8ToStr(std)
         [] scheme = "minus" -> IF i = 1 THEN <<"-", "1">> ELSE U8ToStr(std)
         [] scheme = "space" -> IF i = 1 THEN <<" ", "1">> ELSE U8ToStr(std)

ParsableSchemes == {"std", "rev", "rot", "dup", "plus", "zero", "seventeen"}
UnparsableSchemes == {"alpha", "big", "empty", "minus", "space"}

\* a file of a header and nr data records of nc fields; a ragged file has
\* one field less in its last record
Table(nr, nc, ragged, seed, scheme) ==
    <<[j \in 1..nc |-> <<"h">>]>> \o
    [i \in 1..nr |->
        [j \in 1..(IF ragged /\ i = nr THEN nc - 1 ELSE nc) |->
            IF j = 1 THEN ChannelCell(scheme, i) ELSE Cell(i - 1, j - 2, seed)]]

KITARA == <<"k", "i", "t", "a", "r", "a">>
PortLists ==
    {<<>>,
     <<<<"F", "o", "o", " ", "M", "I", "D", "I">>>>,
     <<<<"F", "o", "o", " ", "M", "I", "D", "I">>, <<"B", "a", "r", "-", "k", "i", "t", "a", "r", "a", "-", "D", "e", "v", "i", "c", "e">>>>,
     <<<<"K", "i", "t", "a", "r", "a", " ", "O", "n", "e">>, <<"K", "I", "T", "A", "R", "A", " ", "t", "w", "o">>>>}
DeviceNames == {KITARA, <<"K", "I", "T", "A", "R", "A">>, <<"K", "i", "t", "a", "r", "a", " ", "T">>, <<"m", "i", "d", "i">>, <<>>}

BaseRun ==
    [argc |-> 3, readable |-> TRUE, midi_ok |-> TRUE,
     csv |-> Table(NUM_STRINGS, NUM_FRETS + 1, FALSE, 0, "std"),
     device |-> KITARA,
     ports |-> <<<<"F", "o", "o", " ", "M", "I", "D", "I">>, <<"B", "a", "r", "-", "k", "i", "t", "a", "r", "a", "-", "D", "e", "v", "i", "c", "e">>>>,
     overflow_checks |-> FALSE]

\* the runs explored: the command line, the file, the MIDI ports, the build
Runs ==
    {[BaseRun EXCEPT !.argc = a] : a \in {1, 2, 4}}
    \cup {[BaseRun EXCEPT !.readable = FALSE], [BaseRun EXCEPT !.midi_ok = FALSE],
          [BaseRun EXCEPT !.csv = <<>>]}
    \cup {[BaseRun EXCEPT !.csv = Table(nr, nc, rg, 0, "std")] :
            nr \in (NUM_STRINGS - 1)..MaxRows, nc \in NUM_FRETS..MaxCols,
            rg \in BOOLEAN}
    \cup {[BaseRun EXCEPT !.csv = Table(NUM_STRINGS, NUM_FRETS + 1, FALSE, seed, "std")] :
            seed \in 0..(Len(TokenList) - 1)}
    \cup {[BaseRun EXCEPT !.csv = Table(NUM_STRINGS, NUM_FRETS + 1, FALSE, 0, sch),
                          !.overflow_checks = oc] :
            sch \in ParsableSchemes \cup UnparsableSchemes, oc \in BOOLEAN}
    \cup {[BaseRun EXCEPT !.device = d, !.ports = p] :
            d \in DeviceNames, p \in PortLists}

NoteBytes == {144, 128, 145}
OtherBytes == {159, 176, 9, 255}
NoteSet == {58, 64, 86, 87}
VelocitySet == {0, 100}

\* the raw messages delivered: too short, note messages on channels 1 and
\* 2, channel 16 and other statuses, the extreme notes, three-byte forms
Messages ==
    {<<>>, <<144>>}
    \cup {<<b0, b1>> : b0 \in NoteBytes, b1 \in NoteSet}
    \cup {<<b0, 64>> : b0 \in OtherBytes}
    \cup {<<144, 0>>, <<144, 255>>}
    \cup {<<144, 64, v>> : v \in VelocitySet}

(***************************************************************************)
(* State.                                                                  *)
(***************************************************************************)
VARIABLES
    run,        \* the inputs of this run (never changed)
    pc,         \* main thread: "main", "loaded", "listening", "exited",
                \* "panicked", "aborted"
    mapping,    \* the Mapping moved into the callback, or NoMapping
    port,       \* 0-based index of the connected port, or -1
    cb,         \* callback delivery: "none", "alive", "dead"
    history,    \* one record per delivered message, in delivery order
    emulation,  \* the calls the keyboard emulation received, in call order
    stdout,     \* what the main thread printed
    exit_code   \* process exit status, or -1 while running

vars == <<run, pc, mapping, port, cb, history, emulation, stdout, exit_code>>

NoMapping == [midi_channels |-> <<>>, keymap |-> <<>>]

Init ==
    /\ run \in Runs
    /\ pc = "main"
    /\ mapping = NoMapping
    /\ port = -1
    /\ cb = "none"
    /\ history = <<>>
    /\ emulation = <<>>
    /\ stdout = <<>>
    /\ exit_code = -1

\* a panic of the main thread ends the process with status 101
MainPanics ==
    /\ pc' = "panicked"
    /\ exit_code' = 101
    /\ UNCHANGED <<run, mapping, port, cb, history, emulation, stdout>>

\* main, lines 48-61, up to the call of listen
Start ==
    /\ pc = "main"
    /\ IF run.argc # 3 \/ ~run.readable THEN MainPanics
       ELSE LET r == load_fretboard_mapping(run.csv)
            IN CASE r.tag = "Panic" -> MainPanics
                 [] r.tag = "Err" ->
                        /\ pc' = "exited"
                        /\ exit_code' = 0
                        /\ stdout' = Append(stdout, [kind |-> "failed_config"])
                        /\ UNCHANGED <<run, mapping, port, cb, history, emulation>>
                 [] r.tag = "Ok" ->
                        /\ pc' = "loaded"
                        /\ mapping' = r.val
                        /\ UNCHANGED <<run, port, cb, history, emulation, stdout, exit_code>>

\* listen, lines 91-148, up to the wait for a line of input; an Err it
\* returns makes main's expect panic
Listen ==
    /\ pc = "loaded"
    /\ LET sel == SelectPort(run.ports, run.device)
       IN IF ~run.midi_ok \/ sel.tag = "Err"
          THEN /\ pc' = "panicked"
               /\ exit_code' = 101
               /\ stdout' = Append(stdout, MappingTable(mapping))
               /\ UNCHANGED <<run, mapping, port, cb, history, emulation>>
          ELSE /\ pc' = "listening"
               /\ port' = sel.val
               /\ cb' = "alive"
               /\ stdout' = stdout \o <<MappingTable(mapping),
                                        [kind |-> "connected",
                                         name |-> At(run.ports, sel.val)]>>
               /\ UNCHANGED <<run, mapping, history, emulation, exit_code>>

\* the calls the emulation has received once an invocation made its calls
\* at the front of the log
EmulationAfter_Reordered(log, calls) == calls \o log

\* the calls the emulation has received once an invocation made its calls:
\* press_release_key and click_key call enigo synchronously, lines 232-246
EmulationAfter(log, calls) == log \o calls

\* the captured Mapping given up by an invocation
KeptMapping_Moved(m) == NoMapping

\* the Mapping captured by the closure after one invocation: the closure
\* only lends it out as &_mapping, lines 136-138
KeptMapping(m) == m

\* one invocation of the callback, lines 118-147, with handle_robo_typing.
\* A panic inside it either ends the delivery thread (the process goes on
\* without a callback) or aborts the process, depending on the MIDI backend.
Deliver ==
    /\ pc = "listening"
    /\ cb = "alive"
    /\ Len(history) < MaxMsgs
    /\ \E message \in Messages :
         LET r == OnMessage(mapping, message, run.overflow_checks)
         IN /\ history' = Append(history,
                    [message |-> message, event |-> r.event, calls |-> r.calls,
                     lines |-> r.lines, result |-> r.tag])
            /\ emulation' = EmulationAfter(emulation, r.calls)
            /\ IF r.tag = "Panic"
               THEN \/ /\ cb' = "dead"
                       /\ UNCHANGED <<pc, exit_code>>
                    \/ /\ cb' = "dead"
                       /\ pc' = "aborted"
                       /\ exit_code' = 134
               ELSE UNCHANGED <<cb, pc, exit_code>>
    /\ mapping' = KeptMapping(mapping)
    /\ UNCHANGED <<run, port, stdout>>

\* a message arriving after the delivery thread died is never processed
Lost ==
    /\ pc = "listening"
    /\ cb = "dead"
    /\ Len(history) < MaxMsgs
    /\ \E message \in Messages :
         history' = Append(history,
             [message |-> message, event |-> NoEvent, calls |-> <<>>,
              lines |-> <<>>, result |-> "Lost"])
    /\ UNCHANGED <<run, pc, mapping, port, cb, emulation, stdout, exit_code>>

\* lines 150-151: a line of input arrives; the connection is dropped and
\* main returns, or reading fails and main's expect panics
Shutdown ==
    /\ pc = "listening"
    /\ \E read_ok \in BOOLEAN :
         IF read_ok THEN pc' = "exited" /\ exit_code' = 0
         ELSE pc' = "panicked" /\ exit_code' = 101
    /\ cb' = "none"
    /\ port' = -1
    /\ UNCHANGED <<run, mapping, history, emulation, stdout>>

Next == Start \/ Listen \/ Deliver \/ Lost \/ Shutdown

Spec == Init /\ [][Next]_vars

\* start-up alone: the configuration is loaded and the port connected
NextStartup == Start \/ Listen

SpecStartup == Init /\ [][NextStartup]_vars

(***************************************************************************)
(* Vocabulary of the properties.                                           *)
(***************************************************************************)
\* the history entries whose message reached the callback
Processed == {i \in 1..Len(history) : history[i].result # "Lost"}

\* the bytes of a message, read arithmetically
WireChannel(m) == (m[1] % 16) + 1
WireStatus(m) == m[1] \div 16
WireNote(m) == m[2]

\* a Press or Release message
IsNoteMessage(m) == Len(m) >= 2 /\ WireStatus(m) \in {8, 9}

\* the data rows of the configuration file and their cells
ConfiguredRows == IF run.csv = <<>> THEN 0 ELSE Len(run.csv) - 1
ConfiguredChannelText(s) == run.csv[s + 2][1]
ConfiguredToken(s, f) == run.csv[s + 2][f + 2]

\* exactly 6 rows of exactly 24 columns
WellShaped ==
    /\ ConfiguredRows = 6
    /\ \A r \in 2..Len(run.csv) : Len(run.csv[r]) = 24

\* the decimal texts of the channels 1..16
ChannelTexts ==
    {<<"1">>, <<"2">>, <<"3">>, <<"4">>, <<"5">>, <<"6">>, <<"7">>, <<"8">>,
     <<"9">>, <<"1", "0">>, <<"1", "1">>, <<"1", "2">>, <<"1", "3">>,
     <<"1", "4">>, <<"1", "5">>, <<"1", "6">>}

\* every row has a channel column holding an integer in [1,16]
ChannelColumnValid ==
    \A r \in 2..Len(run.csv) :
        /\ Len(run.csv[r]) >= 1
        /\ \/ run.csv[r][1] \in ChannelTexts
           \/ /\ Len(run.csv[r][1]) >= 2
              /\ Head(run.csv[r][1]) = "+"
              /\ Tail(run.csv[r][1]) \in ChannelTexts

\* main got as far as loading the configuration
LoadAttempted == pc # "main" /\ run.argc = 3 /\ run.readable

\* a Mapping was produced
MappingBuilt == mapping # NoMapping

\* the configuration was rejected with a reported error, not a crash
ConfigErrorReported ==
    /\ ~MappingBuilt
    /\ pc = "exited"
    /\ \E k \in 1..Len(stdout) : stdout[k].kind = "failed_config"

\* the string the callback resolves a channel to: the first position of
\* the channel in channel_to_string, or -1
StringOfChannel(c) ==
    IF \E i \in 1..Len(mapping.midi_channels) : mapping.midi_channels[i] = c
    THEN (CHOOSE i \in 1..Len(mapping.midi_channels) :
            /\ mapping.midi_channels[i] = c
            /\ \A k \in 1..(i - 1) : mapping.midi_channels[k] # c) - 1
    ELSE -1

StandardTuning == <<64, 59, 55, 50, 45, 40>>

\* the fret a note message resolves to, when its channel is configured on
\* one of the six strings
FretOf(m) == WireNote(m) - StandardTuning[StringOfChannel(WireChannel(m)) + 1]

OnConfiguredString(m) ==
    /\ IsNoteMessage(m)
    /\ StringOfChannel(WireChannel(m)) \in 0..5

InRange(m) == OnConfiguredString(m) /\ FretOf(m) \in 0..22
OutOfRange(m) == OnConfiguredString(m) /\ FretOf(m) \notin 0..22

ActionName(m) == IF WireStatus(m) = 9 THEN "press" ELSE "release"

Modifiers == {SHIFT, CTRL, ALT, CMD}

\* the entry dispatched a token: it printed one event line
Dispatched(h) ==
    /\ h.result = "Ok"
    /\ Len(h.lines) = 1
    /\ h.lines[1].kind = "event"

(***************************************************************************)
(* C1.  A Press or Release on a configured channel whose fret is outside   *)
(* [0,23) is reported as an out-of-range error and discarded: no           *)
(* emulation call, no lookup in another string's cells, no crash.          *)
(***************************************************************************)
C1_OutOfRangeFretRejected ==
    \A i \in Processed :
        OutOfRange(history[i].message) =>
            /\ history[i].result = "Ok"
            /\ history[i].calls = <<>>
            /\ Len(history[i].lines) = 1
            /\ history[i].lines[1].kind = "out_of_range_fret"

(***************************************************************************)
(* C2.  Once listening, per-event errors are not fatal: the process is     *)
(* not aborted, the callback stays alive while the listener is listening,  *)
(* and no delivered message goes unprocessed.                              *)
(***************************************************************************)
C2_PerEventErrorsNonFatal ==
    /\ pc # "aborted"
    /\ pc = "listening" => cb = "alive"
    /\ \A i \in 1..Len(history) : history[i].result = "Ok"

(***************************************************************************)
(* C3.  With a valid channel column, loading produces a Mapping iff the    *)
(* table has exactly 6 rows of exactly 24 columns, and any other shape     *)
(* yields a reported ConfigError rather than a Mapping or a crash.         *)
(***************************************************************************)
C3_ShapeDecidesLoad ==
    (LoadAttempted /\ ChannelColumnValid) =>
        IF WellShaped THEN MappingBuilt ELSE ConfigErrorReported

(***************************************************************************)
(* C4.  A channel column that is not an integer in [1,16] makes loading    *)
(* fail with a reported ConfigError, and no Mapping ever holds a channel   *)
(* outside [1,16].                                                         *)
(***************************************************************************)
C4_ChannelColumnChecked ==
    /\ (LoadAttempted /\ WellShaped /\ ~ChannelColumnValid) => ConfigErrorReported
    /\ \A i \in 1..Len(mapping.midi_channels) : mapping.midi_channels[i] \in 1..16

(***************************************************************************)
(* C5.  Round trip: for a valid 6x24 table, token_at(s, f) of the Mapping  *)
(* built from it is the configured token of row s, fret column f, for      *)
(* every s in [0,6) and f in [0,23), the empty token included.             *)
(***************************************************************************)
C5_RoundTrip ==
    (MappingBuilt /\ WellShaped) =>
        \A s \in 0..5 : \A f \in 0..22 :
            token_at(mapping, s, f, run.overflow_checks) = Ok(ConfiguredToken(s, f))

C5_Witness ==
    /\ MappingBuilt /\ WellShaped
    /\ ConfiguredToken(1, 0) = <<>>
    /\ token_at(mapping, 1, 0, run.overflow_checks) = Ok(<<>>)
    /\ token_at(mapping, 5, 22, run.overflow_checks) = Ok(ConfiguredToken(5, 22))
    /\ ConfiguredToken(5, 22) # <<>>

(***************************************************************************)
(* C6.  A message of at least 2 bytes decodes to channel                   *)
(* (byte0 & 0x0F) + 1 in [1,16], status byte0 >> 4 and note byte1 in       *)
(* [0,255]; a shorter one to no event; equal messages decode equally.      *)
(***************************************************************************)
C6_Decode ==
    /\ \A i \in Processed :
        LET m == history[i].message
            e == history[i].event
        IN IF Len(m) >= 2
           THEN /\ e.some
                /\ e.channel = WireChannel(m) /\ e.channel \in 1..16
                /\ e.status = WireStatus(m)
                /\ e.note = WireNote(m) /\ e.note \in 0..255
           ELSE ~e.some
    /\ \A i \in Processed : \A k \in Processed :
        history[i].message = history[k].message => history[i].event = history[k].event

C6_Witness ==
    /\ Len(history) = 2
    /\ history[1].message = <<159, 64>>
    /\ history[1].event = [channel |-> 16, status |-> 9, note |-> 64, some |-> TRUE]
    /\ history[2].message = <<144>>
    /\ history[2].result = "Ok"
    /\ ~history[2].event.some

(***************************************************************************)
(* C7.  A message shorter than 2 bytes, or whose status nibble is neither  *)
(* 9 nor 8, is silently ignored: no emulation call and no printed line.    *)
(***************************************************************************)
C7_IgnoredSilently ==
    \A i \in Processed :
        ~IsNoteMessage(history[i].message) =>
            /\ history[i].result = "Ok"
            /\ history[i].calls = <<>>
            /\ history[i].lines = <<>>

C7_Witness ==
    /\ Len(history) = 2
    /\ history[1].message = <<176, 64>>
    /\ StringOfChannel(1) = 0
    /\ history[2].message = <<>>
    /\ \A i \in 1..2 : history[i].result = "Ok" /\ history[i].calls = <<>>
                        /\ history[i].lines = <<>>

(***************************************************************************)
(* C8.  A Press or Release whose channel is that of string s and whose     *)
(* note n has 0 <= n - tuning[s] < 23 dispatches the token configured at   *)
(* (s, n - tuning[s]) and prints that string, fret, channel, note, key     *)
(* and action.  (s is the first string holding the channel.)               *)
(***************************************************************************)
C8_EndToEnd ==
    \A i \in Processed :
        LET m == history[i].message
            s == StringOfChannel(WireChannel(m))
            token == ConfiguredToken(s, FretOf(m))
        IN InRange(m) =>
            /\ history[i].result = "Ok"
            /\ history[i].lines =
                 <<[kind |-> "event", string |-> s, fret |-> FretOf(m),
                    channel |-> WireChannel(m), note |-> WireNote(m),
                    key |-> IF token = <<>> THEN UNMAPPED_MARK ELSE token,
                    action |-> ActionName(m)]>>
            /\ history[i].calls = Dispatch(WireStatus(m), token)

C8_Witness ==
    /\ Len(history) = 2
    /\ mapping.midi_channels = <<1, 2, 3, 4, 5, 6>>
    /\ history[1].message = <<144, 64, 0>>
    /\ history[1].lines =
         <<[kind |-> "event", string |-> 0, fret |-> 0, channel |-> 1,
            note |-> 64, key |-> SPACE, action |-> "press"]>>
    /\ history[1].calls = <<[op |-> "key_click", key |-> <<"Space">>]>>
    /\ history[2].message = <<145, 64>>
    /\ history[2].lines[1].string = 1
    /\ history[2].lines[1].fret = 5
    /\ history[2].lines[1].key = ConfiguredToken(1, 5)

(***************************************************************************)
(* C9.  A modifier token emits exactly one key_down of its modifier on     *)
(* Press and exactly one key_up on Release, and never a click, whatever    *)
(* was delivered before.                                                   *)
(***************************************************************************)
ModifierKey(token) ==
    CASE token = SHIFT -> <<"Shift">>
      [] token = CTRL -> <<"Control">>
      [] token = ALT -> <<"Alt">>
      [] token = CMD -> <<"Meta">>

C9_ModifierDownUp ==
    \A i \in Processed :
        LET h == history[i]
        IN (Dispatched(h) /\ h.lines[1].key \in Modifiers) =>
            h.calls = <<[op |-> IF WireStatus(h.message) = 9 THEN "key_down"
                                ELSE "key_up",
                         key |-> ModifierKey(h.lines[1].key)]>>

\* a Release of Control with no earlier Press of it, after a Press of Meta
C9_Witness ==
    /\ Len(history) = 2
    /\ ConfiguredToken(0, 22) = CMD
    /\ history[1].message = <<144, 86>>
    /\ Dispatched(history[1]) /\ history[1].lines[1].key = CMD
    /\ history[1].calls = <<[op |-> "key_down", key |-> <<"Meta">>]>>
    /\ ConfiguredToken(0, 0) = CTRL
    /\ history[2].message = <<128, 64>>
    /\ Dispatched(history[2]) /\ history[2].lines[1].key = CTRL
    /\ history[2].calls = <<[op |-> "key_up", key |-> <<"Control">>]>>

(***************************************************************************)
(* C10.  A non-modifier, non-empty token emits exactly one click (of its   *)
(* named key, or of its first character) on Press and nothing on Release,  *)
(* and the printed line of a Release still says release.                   *)
(***************************************************************************)
ClickedKey(token) ==
    CASE token = SPACE -> <<"Space">>
      [] token = TAB -> <<"Tab">>
      [] token = BACKSPACE -> <<"Backspace">>
      [] token = ENTER -> <<"Return">>
      [] token = ESCAPE -> <<"Escape">>
      [] token = ARROW_LEFT -> <<"LeftArrow">>
      [] token = ARROW_UP -> <<"UpArrow">>
      [] token = ARROW_RIGHT -> <<"RightArrow">>
      [] token = ARROW_DOWN -> <<"DownArrow">>
      [] OTHER -> <<"Layout", token[1]>>

C10_ClickOnPressOnly ==
    \A i \in Processed :
        LET h == history[i]
        IN (Dispatched(h) /\ h.lines[1].key \notin Modifiers \cup {UNMAPPED_MARK}) =>
            IF WireStatus(h.message) = 9
            THEN /\ h.calls = <<[op |-> "key_click", key |-> ClickedKey(h.lines[1].key)]>>
                 /\ h.lines[1].action = "press"
            ELSE /\ h.calls = <<>>
                 /\ h.lines[1].action = "release"

\* a Release of a two-character token, then a Press of it
C10_Witness ==
    /\ Len(history) = 2
    /\ ConfiguredToken(0, 0) = <<"a", "b">>
    /\ history[1].message = <<128, 64>>
    /\ Dispatched(history[1]) /\ history[1].lines[1].key = <<"a", "b">>
    /\ history[1].calls = <<>> /\ history[1].lines[1].action = "release"
    /\ history[2].message = <<144, 64>>
    /\ history[2].calls = <<[op |-> "key_click", key |-> <<"Layout", "a">>]>>

(***************************************************************************)
(* C11.  An unmapped token (the empty string at the resolved coordinate)   *)
(* emits no emulation call of any kind, on Press and on Release alike.     *)
(***************************************************************************)
\* the entry resolved to a coordinate whose configured token is empty
ResolvedUnmapped(m) ==
    /\ InRange(m)
    /\ ConfiguredToken(StringOfChannel(WireChannel(m)), FretOf(m)) = <<>>

C11_UnmappedEmitsNothing ==
    \A i \in Processed :
        LET h == history[i]
        IN (\/ ResolvedUnmapped(h.message)
            \/ (Dispatched(h) /\ h.lines[1].key = UNMAPPED_MARK)) =>
            /\ h.result = "Ok"
            /\ h.calls = <<>>

\* a Press and then a Release on an unmapped coordinate
C11_Witness ==
    /\ Len(history) = 2
    /\ ConfiguredToken(0, 0) = <<>>
    /\ history[1].message = <<144, 64>>
    /\ ResolvedUnmapped(history[1].message)
    /\ history[1].lines[1].action = "press" /\ history[1].calls = <<>>
    /\ history[2].message = <<128, 64>>
    /\ history[2].lines[1].action = "release" /\ history[2].calls = <<>>
    /\ emulation = <<>>

(***************************************************************************)
(* C12.  Every Press or Release on a configured channel, mapped or not,    *)
(* prints exactly one record holding the string index, the computed fret,  *)
(* the channel, the raw note, the token (or the unmapped marker) and the   *)
(* action name press / release.                                            *)
(***************************************************************************)
C12_OneRecordPerEvent ==
    \A i \in Processed :
        LET h == history[i]
            m == h.message
        IN OnConfiguredString(m) =>
            /\ Len(h.lines) = 1
            /\ h.lines[1].kind = "event"
            /\ h.lines[1].string = StringOfChannel(WireChannel(m))
            /\ h.lines[1].fret = FretOf(m)
            /\ h.lines[1].channel = WireChannel(m)
            /\ h.lines[1].note = WireNote(m)
            /\ h.lines[1].key # <<>>
            /\ h.lines[1].action = ActionName(m)

(***************************************************************************)
(* C13.  A Press or Release whose channel is not in channel_to_string is   *)
(* reported and discarded: one line naming the channel, no emulation call, *)
(* no event line, and the listener processes the messages that follow.     *)
(***************************************************************************)
UnknownChannel(m) ==
    /\ IsNoteMessage(m)
    /\ \A k \in 1..Len(mapping.midi_channels) :
            mapping.midi_channels[k] # WireChannel(m)

C13_UnknownChannelRecovered ==
    \A i \in Processed :
        UnknownChannel(history[i].message) =>
            /\ history[i].result = "Ok"
            /\ history[i].calls = <<>>
            /\ history[i].lines = <<[kind |-> "failed_mapping",
                                     channel |-> WireChannel(history[i].message)]>>
            /\ i < Len(history) => (i + 1) \in Processed
            /\ (i = Len(history) /\ pc = "listening") => cb = "alive"

\* an unknown channel, then a valid Press that is dispatched
C13_Witness ==
    /\ Len(history) = 2
    /\ mapping.midi_channels = <<1, 2, 3, 4, 5, 6>>
    /\ history[1].message = <<159, 64>>
    /\ UnknownChannel(history[1].message)
    /\ history[1].lines = <<[kind |-> "failed_mapping", channel |-> 16]>>
    /\ history[2].message = <<144, 64>>
    /\ Dispatched(history[2])
    /\ history[2].calls = <<[op |-> "key_click", key |-> <<"Space">>]>>

(***************************************************************************)
(* C14.  The listener becomes Listening only by opening a port whose name  *)
(* contains the requested substring, case-insensitively; with no such      *)
(* port it fails and is never Listening; with several it opens the first   *)
(* in enumeration order.                                                   *)
(***************************************************************************)
\* two characters equal up to the case of a letter
SameLetter(a, b) ==
    a = b \/ \E k \in 1..26 : {a, b} = {UpperCase[k], LowerCase[k]}

\* the name holds the substring, letters compared without case
NameHolds(name, sub) ==
    \E off \in 0..(Len(name) - Len(sub)) :
        \A q \in 1..Len(sub) : SameLetter(name[off + q], sub[q])

\* the 0-based indices of the ports whose name holds the requested substring
MatchingIndices ==
    {i \in 0..(Len(run.ports) - 1) : NameHolds(run.ports[i + 1], run.device)}

\* listen has run: it prints the mapping table first
ListenEntered == \E k \in 1..Len(stdout) : stdout[k].kind = "mapping"

\* the connection was made: its line was printed
ConnectedLines == {k \in 1..Len(stdout) : stdout[k].kind = "connected"}

C14_FirstMatchingPort ==
    /\ pc = "listening" =>
            /\ port \in MatchingIndices
            /\ \A k \in MatchingIndices : port <= k
    /\ \A k \in ConnectedLines :
            \E i \in MatchingIndices :
                /\ stdout[k].name = run.ports[i + 1]
                /\ \A j \in MatchingIndices : i <= j
    /\ MatchingIndices = {} =>
            /\ pc # "listening" /\ cb = "none" /\ port = -1 /\ history = <<>>
            /\ ListenEntered => (pc = "panicked" /\ exit_code = 101)
    /\ (MatchingIndices # {} /\ run.midi_ok /\ ListenEntered) => ConnectedLines # {}

\* the second of two ports is opened for the substring in upper case
C14_Witness ==
    /\ pc = "listening"
    /\ run.device = <<"K", "I", "T", "A", "R", "A">>
    /\ Len(run.ports) = 2
    /\ run.ports[1] = <<"F", "o", "o", " ", "M", "I", "D", "I">>
    /\ MatchingIndices = {1}
    /\ port = 1

(***************************************************************************)
(* C15.  Once Listening, the listener leaves that state only on the        *)
(* shutdown signal, and then the connection is released, the callback is   *)
(* gone and the process has exited with status 0.                          *)
(***************************************************************************)
C15_ListeningUntilShutdown ==
    ConnectedLines # {} =>
        /\ pc \in {"listening", "exited"}
        /\ pc = "exited" => (exit_code = 0 /\ cb = "none" /\ port = -1)

(***************************************************************************)
(* C16.  A wrong argument count, a configuration that fails to load or     *)
(* the absence of a matching device end the process with a non-zero        *)
(* status without Listening ever being entered; in every other run the     *)
(* process prints the mapping table and the device name, and when it       *)
(* ends it ends with status 0.                                             *)
(***************************************************************************)
\* the configuration fails to load: unreadable, or not a 6x24 table with
\* channels in [1,16]
ConfigFails == ~run.readable \/ ~(WellShaped /\ ChannelColumnValid)

\* one of the three fatal start-up conditions
FatalStartup == run.argc # 3 \/ ConfigFails \/ MatchingIndices = {}

\* the process has ended
Terminated == pc \in {"exited", "panicked", "aborted"}

C16_ExitBehaviour ==
    /\ FatalStartup =>
            /\ pc # "listening" /\ ConnectedLines = {} /\ port = -1
            /\ Terminated => exit_code \notin {0, -1}
    /\ (~FatalStartup /\ run.midi_ok /\ Terminated) =>
            /\ ListenEntered /\ ConnectedLines # {}
            /\ exit_code = 0

(***************************************************************************)
(* C17.  Messages are processed one at a time, so the keyboard-emulation   *)
(* calls are received in the order of the delivered messages; for each     *)
(* modifier key the order of its key_down/key_up calls is the order of     *)
(* the Press/Release messages that caused them.                            *)
(***************************************************************************)
RECURSIVE CallsUpTo(_)
\* the calls of the first n delivered messages, in delivery order
CallsUpTo(n) ==
    IF n = 0 THEN <<>> ELSE CallsUpTo(n - 1) \o history[n].calls

RECURSIVE ModifierMessages(_, _)
\* key_down for each Press and key_up for each Release dispatched on the
\* modifier k among the first n delivered messages, in delivery order
ModifierMessages(k, n) ==
    IF n = 0 THEN <<>>
    ELSE LET h == history[n]
         IN IF /\ Dispatched(h)
               /\ h.lines[1].key \in Modifiers
               /\ ModifierKey(h.lines[1].key) = k
            THEN Append(ModifierMessages(k, n - 1),
                        IF WireStatus(h.message) = 9 THEN "key_down" ELSE "key_up")
            ELSE ModifierMessages(k, n - 1)

\* the operations the emulation received for the key k, in order
OpsOnKey(k) ==
    LET on_k == SelectSeq(emulation, LAMBDA c : c.key = k)
    IN [q \in 1..Len(on_k) |-> on_k[q].op]

C18_SixStringsWhileListening ==
    pc = "listening" =>
        /\ Len(mapping.midi_channels) = 6
        /\ Len(mapping.keymap) = 6 * 23
        /\ \A c \in 1..16 :
              StringOfChannel(c) # -1 =>
                  /\ StringOfChannel(c) \in 0..5
                  /\ StringOfChannel(c) + 1 \in DOMAIN StandardTuning

(***************************************************************************)
(* C19.  The Mapping is immutable after construction: no step of the       *)
(* program, and in particular no processing of a message, changes          *)
(* channel_to_string or any keymap cell once the Mapping is built.         *)
(***************************************************************************)
C19_MappingImmutable == [][MappingBuilt => mapping' = mapping]_vars

\* an ignored message and then a Press have been processed, and the
\* Mapping is still the one loaded from the configuration
C19_Witness ==
    /\ Len(history) = 2
    /\ history[1].message = <<176, 64>>
    /\ history[1].result = "Ok" /\ history[1].lines = <<>>
    /\ history[2].message = <<144, 64>>
    /\ Dispatched(history[2])
    /\ mapping.midi_channels = <<1, 2, 3, 4, 5, 6>>
    /\ Len(mapping.keymap) = 6 * 23
    /\ \A f \in 0..22 : mapping.keymap[f + 1] = ConfiguredToken(0, f)

(***************************************************************************)
(* C20.  Processing is velocity-insensitive: two messages that agree on    *)
(* their first two bytes produce the same emulation calls and the same     *)
(* diagnostic, whatever follows those bytes; a note-on with velocity 0     *)
(* is handled as a Press.                                                  *)
(***************************************************************************)
\* the two messages agree on byte0 and byte1
SameHeader(m, n) ==
    /\ Len(m) >= 2 /\ Len(n) >= 2
    /\ m[1] = n[1] /\ m[2] = n[2]

C20_VelocityInsensitive ==
    /\ \A i, k \in Processed :
          SameHeader(history[i].message, history[k].message) =>
              /\ history[i].calls = history[k].calls
              /\ history[i].lines = history[k].lines
              /\ history[i].result = history[k].result
    /\ \A i \in Processed :
          LET h == history[i]
          IN (/\ Len(h.message) >= 3
              /\ WireStatus(h.message) = 9
              /\ h.message[3] = 0
              /\ Dispatched(h)) => h.lines[1].action = "press"

\* a note-on with velocity 0 and the same note-on without a velocity byte
\* both click the key
C20_Witness ==
    /\ Len(history) = 2
    /\ history[1].message = <<144, 64, 0>>
    /\ history[2].message = <<144, 64>>
    /\ Dispatched(history[1])
    /\ history[1].lines[1].action = "press"
    /\ Len(history[1].calls) = 1
    /\ history[1].calls[1].op = "key_click"
    /\ history[2].calls = history[1].calls
    /\ history[2].lines = history[1].lines

=============================================================================
